---- MODULE Spec2Model ----
(***************************************************************************)
(* State-machine model of the SP-API clients of viktory-dashboard:         *)
(*   backend/sp_api_aws.py     WallCharmersSPAPIAWS  (impl = "aws")        *)
(*   backend/sp_api_client.py  WallCharmersSPAPI     (impl = "direct")     *)
(* One client instance, its two credential caches, the api_calls counter,  *)
(* a wall clock, and the call stack of each thread that uses the client.   *)
(* Time is in seconds.  The clock advances between the caller's calls and  *)
(* in time.sleep; a network exchange is one step at one clock reading.     *)
(***************************************************************************)
EXTENDS Integers, Sequences, FiniteSets, TLC

\* ------------------------------------------------------------------ bounds
MaxTime == 2          \* the environment stops advancing the clock here
RecursionLimit == 3   \* interpreter limit on nested make_sp_api_call frames
MaxCalls == 2         \* no new API call is started once api_calls reached this
MaxHeaders == 3       \* headers in one input of create_aws_signature
MaxSubmissions == 5   \* passwords submitted in one browser session

\* ------------------------------------------------------- program constants
Margin == 60          \* "- 60" safety margin of both caches
DefaultExpiresIn == 3600   \* token_data.get('expires_in', 3600)
RetrySleep == 2       \* time.sleep(2) before the 429 retry

Threads == {1, 2}
Impls == {"aws", "direct"}

None == "None"
Tokens == {"T1", "T2"}
Sessions == {"S1", "S2"}

\* what the environment may do
ClockSteps == {2}
ExpiresInValues == {60, 62, 3600}
StsDurations == {60, 62}
\* requests.get(url, ..., timeout=15): a status, or an exception (a timeout
\* included); without the timeout a silent endpoint gives no outcome at all
GetStatusesNoTimeout == {}
GetStatuses == {"200", "429", "500", "exc"}
\* response.text of an answered GET
Bodies == {"B1", "B2"}

\* ------------------------------------------------------------------ values
\* Every Python value that is returned or passed is one record shape.
NoneV == [tag |-> "none", val |-> "", details |-> "", at |-> 0]
TokenV(x) == [tag |-> "token", val |-> x, details |-> "", at |-> 0]
SessionV(s) == [tag |-> "session", val |-> s, details |-> "", at |-> 0]
SignedV(s, t) == [tag |-> "signed", val |-> s, details |-> "", at |-> t]
PayloadVEnveloped(b) == [tag |-> "payload", val |-> <<"data", b>>, details |-> "", at |-> 0]
PayloadV(b) == [tag |-> "payload", val |-> b, details |-> "", at |-> 0]
ErrorV(msg, det) == [tag |-> "error", val |-> msg, details |-> det, at |-> 0]
\* an exception in flight (not a value a caller receives by "return")
RaisedV(msg) == [tag |-> "raised", val |-> msg, details |-> "", at |-> 0]

\* Python truthiness of the values above ("if not lwa_token", "if not session")
Truthy(v) == v.tag # "none"

ErrAuth(i) == IF i = "aws" THEN ErrorV("LWA authentication failed", "")
              ELSE ErrorV("Authentication failed", "")
ErrSign == ErrorV("AWS signature creation failed", "")
ErrHttp(i, status, body) == IF i = "aws" THEN ErrorV("SP-API Error: " \o status, body)
                            ELSE ErrorV("SP-API Error: " \o status, "")
ErrException(msg) == ErrorV(msg, "")

\* the records test_connection returns (sp_api_aws.py:247, 252, 261, 263-271)
FailedV(step, err, det) ==
  [tag |-> "test", status |-> "FAILED", step |-> step, error |-> err,
   details |-> det, api_calls_made |-> 0]
SuccessV(calls) ==
  [tag |-> "test", status |-> "SUCCESS", step |-> "", error |-> "",
   details |-> "", api_calls_made |-> calls]

VARIABLES
  impl,                    \* which client class the instance is
  config,                  \* the required settings the environment does not give
  sp_api,                  \* the dashboard's client: "unbuilt", "client" or "none"
  headers,                 \* create_aws_signature's headers argument, in insertion order
  canonical_headers,       \* its local canonical_headers, one line per element
  signed_headers,          \* its local signed_headers, one name per element
  now,                     \* time.time()
  lwa_access_token,        \* self.lwa_access_token / self.access_token
  lwa_token_expires_at,    \* self.lwa_token_expires_at / self.token_expires_at
  aws_session,             \* self.aws_session
  aws_session_expires_at,  \* self.aws_session_expires_at
  api_calls,               \* self.api_calls
  pc, op, stack, ret, result, resp, depth,   \* per thread: control and locals
  log,                     \* per thread: network calls of the running frame
  tries,                   \* per thread: HTTP GETs of the running operation
  gets,                    \* per thread: the statuses those GETs were answered with
  entryT, entryS,          \* per thread: cache as read by the last validity check
  frame,                   \* per thread: api_calls at frame entry, callee failures
  prev,                    \* last finished top-level get_token call
  tokenBy, expiryBy,       \* which thread's refresh wrote each token field
  token_dies,              \* when the token in lwa_access_token stops being valid
  http_gets,               \* requests.get calls made on the SP-API so far
  sigv4,                   \* create_aws_signature's locals of lines 135-147
  dash,                    \* get_dashboard_data's locals and return value
  gate                     \* the Streamlit session of streamlit_app.py

client == <<lwa_access_token, lwa_token_expires_at, aws_session,
            aws_session_expires_at, api_calls>>
ctl == <<pc, op, stack, ret, result, resp, depth>>
ghost == <<log, tries, gets, entryT, entryS, frame, prev>>
\* what no method of the client assigns
signing == <<headers, canonical_headers, signed_headers, sigv4>>
\* the dashboard around the client
ui == <<dash, gate>>
env == <<impl, config, sp_api, signing, ui>>
\* 0: written by __init__ or by a refresh older than the thread's running one
writers == <<tokenBy, expiryBy, token_dies, http_gets>>
vars == <<env, writers, now, client, ctl, ghost>>

NoResp == [kind |-> "none", tok |-> "", ek |-> "int", e |-> 0, sess |-> "", xk |-> "int", x |-> 0,
           status |-> "", body |-> ""]
NoEntry == [val |-> None, exp |-> 0, at |-> 0, vby |-> 0, eby |-> 0, dies |-> 0]
NoFrame == [calls |-> 0, tokFailed |-> FALSE, arFailed |-> FALSE, cold |-> FALSE]
NoPrev == [tok |-> "", exch |-> 0]
NoSigV4 == [input |-> <<>>, timestamp |-> <<>>, date_stamp |-> <<>>,
            string_to_sign |-> <<>>, authorization |-> <<>>, session_token |-> <<>>]
NoData == [data_source |-> "", api_status |-> ""]
NoDash == [pc |-> "idle", today |-> NoneV, week |-> NoneV, inventory |-> NoneV,
           raised |-> FALSE, out |-> NoData]
\* a key that is not in st.session_state
Absent == "<absent>"
\* a new browser session: empty session_state, no script run yet
NoGate == [password_correct |-> Absent, password |-> Absent, welcome_shown |-> FALSE,
           widget |-> FALSE, body |-> FALSE, submitted |-> <<>>]

\* -------------------------------------------------------------------- Init
\* the client's fields and the threads' state after construction
Constructed ==
  /\ now = 0
  /\ canonical_headers = <<>>
  /\ signed_headers = <<>>
  /\ lwa_access_token = None
  /\ lwa_token_expires_at = 0
  /\ aws_session = None
  /\ aws_session_expires_at = 0
  /\ api_calls = 0
  /\ op = [t \in Threads |-> "none"]
  /\ stack = [t \in Threads |-> <<>>]
  /\ ret = [t \in Threads |-> NoneV]
  /\ result = [t \in Threads |-> NoneV]
  /\ resp = [t \in Threads |-> NoResp]
  /\ depth = [t \in Threads |-> 0]
  /\ log = [t \in Threads |-> <<>>]
  /\ tries = [t \in Threads |-> 0]
  /\ gets = [t \in Threads |-> <<>>]
  /\ entryT = [t \in Threads |-> NoEntry]
  /\ entryS = [t \in Threads |-> NoEntry]
  /\ frame = [t \in Threads |-> NoFrame]
  /\ prev = NoPrev
  /\ tokenBy = 0 /\ expiryBy = 0
  /\ token_dies = 0
  /\ http_gets = 0
  /\ sigv4 = NoSigV4
  /\ dash = NoDash
  /\ gate = NoGate

\* one thread calls the client
OneCaller == pc = [t \in Threads |-> IF t = 1 THEN "idle" ELSE "off"]

\* a constructed client with every setting given
Init ==
  /\ impl \in Impls
  /\ config = {}
  /\ headers = <<>>
  /\ sp_api = "client"
  /\ Constructed
  /\ OneCaller


\* ----------------------------------------------------------------- helpers
\* the network calls a log can hold, by kind
LwaCalls == {"lwa"}
StsCalls == {"sts"}
GetCalls == {"get" \o s : s \in GetStatuses}
Throttled == {"get429"}
Count(s, kinds) == Cardinality({i \in 1..Len(s) : s[i] \in kinds})

\* the frame goes on to its next statement; a returned value has been used
Goto(t, l) ==
  /\ pc' = [pc EXCEPT ![t] = l]
  /\ ret' = [ret EXCEPT ![t] = NoneV]
  /\ UNCHANGED <<stack, result>>

\* the frame calls a method and will continue at "back"
Call(t, entry, back) ==
  /\ pc' = [pc EXCEPT ![t] = entry]
  /\ stack' = [stack EXCEPT ![t] = <<back>> \o @]
  /\ ret' = [ret EXCEPT ![t] = NoneV]
  /\ UNCHANGED result

\* "return v": to the calling frame, or out of the top-level operation
Return(t, v) ==
  IF stack[t] = <<>>
  THEN /\ pc' = [pc EXCEPT ![t] = "done"]
       /\ result' = [result EXCEPT ![t] = v]
       /\ ret' = [ret EXCEPT ![t] = NoneV]
       /\ UNCHANGED stack
  ELSE /\ pc' = [pc EXCEPT ![t] = Head(stack[t])]
       /\ stack' = [stack EXCEPT ![t] = Tail(@)]
       /\ ret' = [ret EXCEPT ![t] = v]
       /\ UNCHANGED result

Logged(t, x) == log' = [log EXCEPT ![t] = Append(@, x)]
TokenFailed(t) == frame' = [frame EXCEPT ![t].tokFailed = TRUE]
RoleFailed(t) == frame' = [frame EXCEPT ![t].arFailed = TRUE]

\* ------------------------------------------------ get_lwa_token (4.1)
\* sp_api_aws.py:51 / sp_api_client.py:54
\*   if self.lwa_access_token and time.time() < self.lwa_token_expires_at
TokenValidFlipped(tok, exp, t) == tok # None /\ t > exp
TokenValidMarginTwice(tok, exp, t) == tok # None /\ t < exp - Margin
TokenValidAtExpiry(tok, exp, t) == tok # None /\ t <= exp
TokenValid(tok, exp, t) == tok # None /\ t < exp

\* responses of the LWA endpoint to requests.post
LwaResponses ==
  {[NoResp EXCEPT !.kind = k] : k \in {"exc", "status", "badjson"}}
  \cup {[NoResp EXCEPT !.kind = "ok", !.tok = k, !.ek = "int", !.e = e] :
          k \in Tokens \cup {""}, e \in ExpiresInValues}
  \cup {[NoResp EXCEPT !.kind = "ok", !.tok = k, !.ek = x] :
          k \in Tokens, x \in {"missing", "bad"}}

\* execution reaches the assignment of line 65: status 200, a JSON body, and
\* an 'access_token' key
LwaReachesStore(r) == r.kind = "ok" /\ r.tok # ""

\* token_data.get('expires_in', 3600)
ExpiresIn(r) == IF r.ek = "missing" THEN DefaultExpiresIn ELSE r.e

\* the time the token of response r stops being valid when it is received at
\* time t: the response's expires_in seconds later
LifetimeEnd(t, r) == t + ExpiresIn(r)

\* time.time() + expires_in - 60
LwaExpiresAtNoClock(t, e) == e - Margin
LwaExpiresAt(t, e) == t + e - Margin

GetLwaTokenCheck(t) ==
  /\ pc[t] = "lwa_check"
  /\ entryT' = [entryT EXCEPT ![t] =
        [val |-> lwa_access_token, exp |-> lwa_token_expires_at, at |-> now,
         vby |-> tokenBy, eby |-> expiryBy, dies |-> token_dies]]
  /\ IF TokenValid(lwa_access_token, lwa_token_expires_at, now)
     THEN Return(t, TokenV(lwa_access_token))
     ELSE Goto(t, "lwa_post")
  /\ UNCHANGED <<env, writers, now, client, op, resp, depth, log, tries, gets, entryS, frame, prev>>

GetLwaTokenPost(t) ==
  /\ pc[t] = "lwa_post"
  /\ \E r \in LwaResponses :
       /\ Logged(t, "lwa")
       /\ IF LwaReachesStore(r)
          THEN /\ resp' = [resp EXCEPT ![t] = r]
               /\ Goto(t, "lwa_store_token")
               /\ UNCHANGED frame
          ELSE /\ Return(t, NoneV)
               /\ TokenFailed(t)
               /\ UNCHANGED resp
  /\ UNCHANGED <<env, writers, now, client, op, depth, tries, gets, entryT, entryS, prev>>

GetLwaTokenStoreToken(t) ==
  /\ pc[t] = "lwa_store_token"
  /\ lwa_access_token' = resp[t].tok
  /\ tokenBy' = t
  /\ expiryBy' = IF expiryBy = t THEN 0 ELSE expiryBy
  /\ token_dies' = LifetimeEnd(now, resp[t])
  /\ Goto(t, "lwa_store_exp")
  /\ UNCHANGED <<env, http_gets, now, lwa_token_expires_at, aws_session,
                 aws_session_expires_at, api_calls, op, resp, depth, ghost>>

GetLwaTokenStoreExpiry(t) ==
  /\ pc[t] = "lwa_store_exp"
  /\ IF resp[t].ek = "bad"
     THEN /\ Return(t, NoneV)
          /\ TokenFailed(t)
          /\ UNCHANGED <<lwa_token_expires_at, expiryBy>>
     ELSE /\ lwa_token_expires_at' = LwaExpiresAt(now, ExpiresIn(resp[t]))
          /\ expiryBy' = t
          /\ Goto(t, "lwa_return")
          /\ UNCHANGED frame
  /\ UNCHANGED <<env, tokenBy, token_dies, http_gets, now, lwa_access_token, aws_session,
                 aws_session_expires_at, api_calls, op, resp, depth,
                 log, tries, gets, entryT, entryS, prev>>

GetLwaTokenReturn(t) ==
  /\ pc[t] = "lwa_return"
  /\ Return(t, TokenV(lwa_access_token))
  /\ UNCHANGED <<env, writers, now, client, op, resp, depth, ghost>>

\* --------------------------------------------------- assume_role (4.2)
\* sp_api_aws.py:79  if self.aws_session and time.time() < self.aws_session_expires_at
SessionValidMarginTwice(s, exp, t) == s # None /\ t < exp - Margin
SessionValidAtExpiry(s, exp, t) == s # None /\ t <= exp
SessionValid(s, exp, t) == s # None /\ t < exp

\* outcomes of boto3.client(...) + sts_client.assume_role(...); x is the
\* Expiration timestamp of the returned credentials
StsResponses(t0) ==
  {[NoResp EXCEPT !.kind = "exc"]}
  \cup {[NoResp EXCEPT !.kind = "ok", !.sess = s, !.xk = "int", !.x = t0 + d] :
          s \in Sessions \cup {""}, d \in StsDurations}
  \cup {[NoResp EXCEPT !.kind = "ok", !.sess = s, !.xk = "bad"] : s \in Sessions}

\* execution reaches the assignment of lines 100-104: the call returned and the
\* response has Credentials with AccessKeyId, SecretAccessKey, SessionToken
StsReachesStore(r) == r.kind = "ok" /\ r.sess # ""

\* credentials['Expiration'].timestamp() - 60
StsExpiresAt(x) == x - Margin

AssumeRoleCheck(t) ==
  /\ pc[t] = "ar_check"
  /\ entryS' = [entryS EXCEPT ![t] =
        [NoEntry EXCEPT !.val = aws_session, !.exp = aws_session_expires_at,
                        !.at = now]]
  /\ IF SessionValid(aws_session, aws_session_expires_at, now)
     THEN Return(t, SessionV(aws_session))
     ELSE Goto(t, "ar_call")
  /\ UNCHANGED <<env, writers, now, client, op, resp, depth, log, tries, gets, entryT, frame, prev>>

AssumeRoleCall(t) ==
  /\ pc[t] = "ar_call"
  /\ \E r \in StsResponses(now) :
       /\ Logged(t, "sts")
       /\ IF StsReachesStore(r)
          THEN /\ resp' = [resp EXCEPT ![t] = r]
               /\ Goto(t, "ar_store_session")
               /\ UNCHANGED frame
          ELSE /\ Return(t, NoneV)
               /\ RoleFailed(t)
               /\ UNCHANGED resp
  /\ UNCHANGED <<env, writers, now, client, op, depth, tries, gets, entryT, entryS, prev>>

AssumeRoleStoreSession(t) ==
  /\ pc[t] = "ar_store_session"
  /\ aws_session' = resp[t].sess
  /\ Goto(t, "ar_store_exp")
  /\ UNCHANGED <<env, writers, now, lwa_access_token, lwa_token_expires_at,
                 aws_session_expires_at, api_calls, op, resp, depth, ghost>>

AssumeRoleStoreExpiry(t) ==
  /\ pc[t] = "ar_store_exp"
  /\ IF resp[t].xk = "bad"
     THEN /\ Return(t, NoneV)
          /\ RoleFailed(t)
          /\ UNCHANGED aws_session_expires_at
     ELSE /\ aws_session_expires_at' = StsExpiresAt(resp[t].x)
          /\ Goto(t, "ar_return")
          /\ UNCHANGED frame
  /\ UNCHANGED <<env, writers, now, lwa_access_token, lwa_token_expires_at,
                 aws_session, api_calls, op, resp, depth,
                 log, tries, gets, entryT, entryS, prev>>

AssumeRoleReturn(t) ==
  /\ pc[t] = "ar_return"
  /\ Return(t, SessionV(aws_session))
  /\ UNCHANGED <<env, writers, now, client, op, resp, depth, ghost>>


\* ------------------------------------------ create_aws_signature (4.3)
\* sp_api_aws.py:117  if not session: return None
SessionMissing(v) == ~Truthy(v)

\* sp_api_aws.py:116-155: None without a session, else the input headers
\* signed with that session at the current clock reading
SignResultUnchecked(v, t) == SignedV(v.val, t)
SignResult(v, t) == IF SessionMissing(v) THEN NoneV ELSE SignedV(v.val, t)

CreateAwsSignatureBegin(t) ==
  /\ pc[t] = "sig_begin"
  /\ Call(t, "ar_check", "sig_after_assume")
  /\ UNCHANGED <<env, writers, now, client, op, resp, depth, ghost>>

CreateAwsSignatureSign(t) ==
  /\ pc[t] = "sig_after_assume"
  /\ Return(t, SignResult(ret[t], now))
  /\ entryS' = [entryS EXCEPT ![t] = NoEntry]
  /\ resp' = [resp EXCEPT ![t] = NoResp]
  /\ UNCHANGED <<env, writers, now, client, op, depth, log, tries, gets, entryT, frame, prev>>

\* ------------------------------- make_sp_api_call / make_api_call (4.4)
\* sp_api_aws.py:168 / sp_api_client.py:83  if not lwa_token
LwaTokenNeverMissing(v) == FALSE
LwaTokenMissing(v) == ~Truthy(v)

\* sp_api_aws.py:185  if not signed_headers
SignatureMissingInverted(v) == Truthy(v)
SignatureMissing(v) == ~Truthy(v)

\* sp_api_aws.py:196-204 / sp_api_client.py:102-110: what the status decides
StatusActionNoPayload(s) ==
  CASE s = "429" -> "retry"
    [] OTHER -> "error"
StatusAction(s) ==
  CASE s = "200" -> "payload"
    [] s = "429" -> "retry"
    [] OTHER -> "error"

\* sp_api_aws.py:206-208 / sp_api_client.py:112-114
\*   except Exception as e: return {'error': str(e)}
ExceptHandlerReraises(e) == e
ExceptHandlerGeneric(e) == ErrException("request failed")
ExceptHandler(e) == ErrException(e.val)

\* the recursive call of line 201 raises RecursionError once the interpreter's
\* frame limit is reached; the handler of lines 206-208 turns it into a record
RecursionExceeded(d) == d >= RecursionLimit

\* sp_api_aws.py:188 / sp_api_client.py:94  self.api_calls += 1
NotCounted(n) == n
Counted(n) == n + 1

MakeSpApiCallBegin(t) ==
  /\ pc[t] = "msc_begin"
  /\ depth' = [depth EXCEPT ![t] = @ + 1]
  /\ frame' = [frame EXCEPT ![t] =
        [calls |-> api_calls, tokFailed |-> FALSE, arFailed |-> FALSE,
         cold |-> lwa_access_token = None /\ aws_session = None]]
  /\ log' = [log EXCEPT ![t] = <<>>]
  /\ Call(t, "lwa_check", "msc_after_token")
  /\ UNCHANGED <<env, writers, now, client, op, resp, tries, gets, entryT, entryS, prev>>

MakeSpApiCallAfterToken(t) ==
  /\ pc[t] = "msc_after_token"
  /\ IF LwaTokenMissing(ret[t])
     THEN /\ Return(t, ErrAuth(impl))
          /\ UNCHANGED api_calls
     ELSE IF impl = "aws"
     THEN /\ Call(t, "sig_begin", "msc_after_sign")
          /\ UNCHANGED api_calls
     ELSE /\ api_calls' = Counted(api_calls)
          /\ Goto(t, "msc_get")
  /\ entryT' = [entryT EXCEPT ![t] = NoEntry]
  /\ resp' = [resp EXCEPT ![t] = NoResp]
  /\ UNCHANGED <<env, writers, now, lwa_access_token, lwa_token_expires_at,
                 aws_session, aws_session_expires_at, op, depth,
                 log, tries, gets, entryS, frame, prev>>

MakeSpApiCallAfterSign(t) ==
  /\ pc[t] = "msc_after_sign"
  /\ IF SignatureMissing(ret[t])
     THEN /\ Return(t, ErrSign)
          /\ UNCHANGED api_calls
     ELSE /\ api_calls' = Counted(api_calls)
          /\ Goto(t, "msc_get")
  /\ UNCHANGED <<env, writers, now, lwa_access_token, lwa_token_expires_at,
                 aws_session, aws_session_expires_at, op, resp, depth, ghost>>

\* the response of requests.get as the 200 and the error branch read it
HttpResp(s, b) == [NoResp EXCEPT !.kind = "http", !.status = s, !.body = b]

MakeSpApiCallGet(t) ==
  /\ pc[t] = "msc_get"
  /\ \E s \in GetStatuses, b \in Bodies :
       /\ Logged(t, "get" \o s)
       /\ tries' = [tries EXCEPT ![t] = @ + 1]
       /\ gets' = [gets EXCEPT ![t] = Append(@, s)]
       /\ http_gets' = http_gets + 1
       /\ IF s = "exc"
          THEN /\ Return(t, ExceptHandler(RaisedV("transport")))
               /\ UNCHANGED resp
          ELSE CASE StatusAction(s) = "payload" ->
                      /\ Return(t, PayloadV(b))
                      /\ resp' = [resp EXCEPT ![t] = HttpResp(s, b)]
                 [] StatusAction(s) = "retry" ->
                      /\ Goto(t, "msc_sleep")
                      /\ UNCHANGED resp
                 [] OTHER ->
                      /\ Return(t, ErrHttp(impl, s, b))
                      /\ resp' = [resp EXCEPT ![t] = HttpResp(s, b)]
  /\ UNCHANGED <<env, tokenBy, expiryBy, token_dies, now, client, op, depth,
                 entryT, entryS, frame, prev>>

MakeSpApiCallSleep(t) ==
  /\ pc[t] = "msc_sleep"
  /\ now' = now + RetrySleep
  /\ IF RecursionExceeded(depth[t])
     THEN Return(t, ExceptHandler(RaisedV("maximum recursion depth exceeded")))
     ELSE Goto(t, "msc_begin")
  /\ UNCHANGED <<env, writers, client, op, resp, depth, ghost>>

\* ----------------------------------------------------- get_orders_today
\* sp_api_aws.py:218 / sp_api_client.py:127  return self.make_sp_api_call(...)
GetOrdersTodayBegin(t) ==
  /\ pc[t] = "got_begin"
  /\ Call(t, "msc_begin", "got_return")
  /\ UNCHANGED <<env, writers, now, client, op, resp, depth, ghost>>

GetOrdersTodayReturn(t) ==
  /\ pc[t] = "got_return"
  /\ Return(t, ret[t])
  /\ UNCHANGED <<env, writers, now, client, op, resp, depth, ghost>>

\* ------------------------------------------------------ test_connection
\* sp_api_aws.py:260  if 'error' in result
HasError(v) == v.tag = "error"

TestConnectionBegin(t) ==
  /\ pc[t] = "tc_begin"
  /\ Call(t, "lwa_check", "tc_after_token")
  /\ UNCHANGED <<env, writers, now, client, op, resp, depth, ghost>>

TestConnectionAfterToken(t) ==
  /\ pc[t] = "tc_after_token"
  /\ IF ~Truthy(ret[t])
     THEN Return(t, FailedV("LWA_TOKEN", "LWA token failed", ""))
     ELSE Call(t, "ar_check", "tc_after_role")
  /\ entryT' = [entryT EXCEPT ![t] = NoEntry]
  /\ resp' = [resp EXCEPT ![t] = NoResp]
  /\ UNCHANGED <<env, writers, now, client, op, depth, log, tries, gets, entryS, frame, prev>>

TestConnectionAfterRole(t) ==
  /\ pc[t] = "tc_after_role"
  /\ IF ~Truthy(ret[t])
     THEN Return(t, FailedV("AWS_ROLE", "AWS role assumption failed", ""))
     ELSE Call(t, "msc_begin", "tc_after_call")
  /\ entryS' = [entryS EXCEPT ![t] = NoEntry]
  /\ resp' = [resp EXCEPT ![t] = NoResp]
  /\ UNCHANGED <<env, writers, now, client, op, depth, log, tries, gets, entryT, frame, prev>>

TestConnectionReport(t) ==
  /\ pc[t] = "tc_after_call"
  /\ IF HasError(ret[t])
     THEN Return(t, FailedV("SP_API_CALL", ret[t].val, ret[t].details))
     ELSE Return(t, SuccessV(api_calls))
  /\ UNCHANGED <<env, writers, now, client, op, resp, depth, ghost>>

\* ------------------------------------------------- callers and the clock
Ops(i) == IF i = "aws"
          THEN {"get_lwa_token", "assume_role", "create_aws_signature", "make_sp_api_call"}
          ELSE {"get_lwa_token", "make_sp_api_call"}

\* the methods built on the API call; test_connection as sp_api_aws.py has it
WrapperOps(i) == IF i = "aws" THEN {"get_orders_today", "test_connection"}
                 ELSE {"get_orders_today"}

EntryOf(o) ==
  CASE o = "get_lwa_token" -> "lwa_check"
    [] o = "assume_role" -> "ar_check"
    [] o = "create_aws_signature" -> "sig_begin"
    [] o = "make_sp_api_call" -> "msc_begin"
    [] o = "get_orders_today" -> "got_begin"
    [] o = "test_connection" -> "tc_begin"

\* a caller invokes one method of the client
Start(t) ==
  /\ sp_api = "client"
  /\ pc[t] = "idle"
  /\ now <= MaxTime
  /\ \E o \in Ops(impl) :
       /\ o = "make_sp_api_call" => api_calls < MaxCalls
       /\ op' = [op EXCEPT ![t] = o]
       /\ pc' = [pc EXCEPT ![t] = EntryOf(o)]
  /\ UNCHANGED <<env, writers, now, client, stack, ret, result, resp, depth, ghost>>

\* a caller invokes one of the methods built on the API call
StartWrapper(t) ==
  /\ sp_api = "client"
  /\ pc[t] = "idle"
  /\ now <= MaxTime
  /\ api_calls < MaxCalls
  /\ \E o \in WrapperOps(impl) :
       /\ op' = [op EXCEPT ![t] = o]
       /\ pc' = [pc EXCEPT ![t] = EntryOf(o)]
  /\ UNCHANGED <<env, writers, now, client, stack, ret, result, resp, depth, ghost>>

\* the caller takes the result; the bookkeeping of the call is dropped
Finish(t) ==
  /\ pc[t] = "done"
  /\ prev' = IF op[t] = "get_lwa_token" /\ Truthy(result[t])
             THEN [tok |-> result[t].val, exch |-> Count(log[t], LwaCalls)]
             ELSE NoPrev
  /\ pc' = [pc EXCEPT ![t] = "idle"]
  /\ op' = [op EXCEPT ![t] = "none"]
  /\ result' = [result EXCEPT ![t] = NoneV]
  /\ depth' = [depth EXCEPT ![t] = 0]
  /\ log' = [log EXCEPT ![t] = <<>>]
  /\ tries' = [tries EXCEPT ![t] = 0]
  /\ gets' = [gets EXCEPT ![t] = <<>>]
  /\ entryT' = [entryT EXCEPT ![t] = NoEntry]
  /\ entryS' = [entryS EXCEPT ![t] = NoEntry]
  /\ frame' = [frame EXCEPT ![t] = NoFrame]
  /\ resp' = [resp EXCEPT ![t] = NoResp]
  /\ UNCHANGED <<env, writers, now, client, stack, ret>>

\* time passes between calls
Tick ==
  /\ \A t \in Threads : pc[t] \in {"idle", "off"}
  /\ \E d \in ClockSteps : now + d <= MaxTime /\ now' = now + d
  /\ UNCHANGED <<env, writers, client, ctl, ghost>>

\* the steps of a running call
Run(t) ==
  \/ GetLwaTokenCheck(t)
  \/ GetLwaTokenPost(t)
  \/ GetLwaTokenStoreToken(t)
  \/ GetLwaTokenStoreExpiry(t)
  \/ GetLwaTokenReturn(t)
  \/ AssumeRoleCheck(t)
  \/ AssumeRoleCall(t)
  \/ AssumeRoleStoreSession(t)
  \/ AssumeRoleStoreExpiry(t)
  \/ AssumeRoleReturn(t)
  \/ CreateAwsSignatureBegin(t)
  \/ CreateAwsSignatureSign(t)
  \/ MakeSpApiCallBegin(t)
  \/ MakeSpApiCallAfterToken(t)
  \/ MakeSpApiCallAfterSign(t)
  \/ MakeSpApiCallGet(t)
  \/ MakeSpApiCallSleep(t)

\* the steps of the methods built on the API call
RunWrapper(t) ==
  \/ GetOrdersTodayBegin(t)
  \/ GetOrdersTodayReturn(t)
  \/ TestConnectionBegin(t)
  \/ TestConnectionAfterToken(t)
  \/ TestConnectionAfterRole(t)
  \/ TestConnectionReport(t)

Next == Tick \/ \E t \in Threads : Start(t) \/ Run(t) \/ Finish(t)

Spec == Init /\ [][Next]_vars

\* a thread that is inside a call keeps executing it
FairSpec == Spec /\ \A t \in Threads : WF_vars(Run(t))

\* ------------------------------------------------------- construction
\* the settings __init__ reads with os.getenv and gives no default
RequiredKeys == {"client_id", "client_secret", "refresh_token",
                 "aws_access_key", "aws_secret_key", "role_arn", "seller_id"}
\* environments: complete, or one required variable not set
Configs == {{}} \cup {{k} : k \in RequiredKeys}

\* sp_api_aws.py:23-47: os.getenv gives None for a variable that is not set,
\* and no statement of __init__ tests a value or raises
InitRaises(missing) == FALSE

\* app.py:31-38: self.sp_api = WallCharmersSPAPIAWS(), None if that raised
Construct ==
  /\ sp_api = "unbuilt"
  /\ sp_api' = IF InitRaises(config) THEN "none" ELSE "client"
  /\ UNCHANGED <<impl, config, signing, ui, writers, now, client, ctl, ghost>>

ConfigInit ==
  /\ impl = "aws"
  /\ headers = <<>>
  /\ config \in Configs
  /\ sp_api = "unbuilt"
  /\ Constructed
  /\ OneCaller

ConfigNext == Construct \/ Next

\* the signing client built from any of the environments
ConfigSpec == ConfigInit /\ [][ConfigNext]_vars

\* ------------------------------------------- two threads, one client
\* app.py:178: one module-level dashboard, so one client, serves every
\* request thread of the Flask server
TwoCallers == pc = [t \in Threads |-> "idle"]

\* both threads ask for the bearer token (assume_role, lines 79-108, has the
\* same check-exchange-store shape on the other pair of fields)
RaceOps == {"get_lwa_token"}

StartRace(t) ==
  /\ sp_api = "client"
  /\ pc[t] = "idle"
  /\ now <= MaxTime
  /\ \E o \in RaceOps :
       /\ op' = [op EXCEPT ![t] = o]
       /\ pc' = [pc EXCEPT ![t] = EntryOf(o)]
  /\ UNCHANGED <<env, writers, now, client, stack, ret, result, resp, depth, ghost>>

\* the steps of get_lwa_token
RunToken(t) ==
  \/ GetLwaTokenCheck(t)
  \/ GetLwaTokenPost(t)
  \/ GetLwaTokenStoreToken(t)
  \/ GetLwaTokenStoreExpiry(t)
  \/ GetLwaTokenReturn(t)

RaceInit ==
  /\ impl = "aws"
  /\ headers = <<>>
  /\ config = {}
  /\ sp_api = "client"
  /\ Constructed
  /\ TwoCallers

\* the threads interleave statement by statement at one clock reading
RaceNext == \E t \in Threads : StartRace(t) \/ RunToken(t) \/ Finish(t)

\* two request threads refreshing the token cache of the shared client
RaceSpec == RaceInit /\ [][RaceNext]_vars

\* ------------------------- canonical headers of create_aws_signature
\* header names as sequences of character codes, the order Python compares
\* strings by: "Host", "host", "User-Agent", "user-agent", "X-Amz-Date",
\* "x-amz-date"
HostCap == <<72, 111, 115, 116>>
HostLow == <<104, 111, 115, 116>>
UserAgentCap == <<85, 115, 101, 114, 45, 65, 103, 101, 110, 116>>
UserAgentLow == <<117, 115, 101, 114, 45, 97, 103, 101, 110, 116>>
XAmzDateCap == <<88, 45, 65, 109, 122, 45, 68, 97, 116, 101>>
XAmzDateLow == <<120, 45, 97, 109, 122, 45, 100, 97, 116, 101>>
HeaderNames == {HostCap, HostLow, UserAgentCap, UserAgentLow, XAmzDateCap, XAmzDateLow}

\* str.lower() on one character and on a string
LowerChar(c) == IF c \in 65..90 THEN c + 32 ELSE c
Lower(k) == [i \in 1..Len(k) |-> LowerChar(k[i])]

\* the value each header carries
ValueOf(k) ==
  CASE Lower(k) = HostLow -> <<"h">>
    [] Lower(k) = XAmzDateLow -> <<"d">>
    [] OTHER -> <<"u">>

\* a < b for Python strings: by the first differing character, else by length
RECURSIVE StrLess(_, _)
StrLess(a, b) ==
  IF b = <<>> THEN FALSE
  ELSE IF a = <<>> THEN TRUE
  ELSE IF Head(a) # Head(b) THEN Head(a) < Head(b)
  ELSE StrLess(Tail(a), Tail(b))

\* sorted(headers.items()) / sorted(headers.keys()): ascending by the key as
\* written (keys of a dict are distinct)
RECURSIVE SortedByKey(_)
SortedByKey(items) ==
  IF items = <<>> THEN <<>>
  ELSE LET least == CHOOSE i \in 1..Len(items) :
                      \A j \in 1..Len(items) : ~StrLess(items[j][1], items[i][1])
           others == [j \in 1..(Len(items) - 1) |->
                        IF j < least THEN items[j] ELSE items[j + 1]]
       IN <<items[least]>> \o SortedByKey(others)

\* sp_api_aws.py:128  f"{k.lower()}:{v}" for k, v in sorted(headers.items())
CanonicalHeaders(h) ==
  LET srt == SortedByKey(h)
  IN [i \in 1..Len(srt) |-> <<Lower(srt[i][1]), srt[i][2]>>]

\* sp_api_aws.py:129  k.lower() for k in sorted(headers.keys())
SignedHeaders(h) ==
  LET srt == SortedByKey(h)
  IN [i \in 1..Len(srt) |-> Lower(srt[i][1])]

\* header dicts of up to MaxHeaders entries, each header once, in any casing
\* and any insertion order
HeaderInputs ==
  {[i \in 1..Len(ks) |-> <<ks[i], ValueOf(ks[i])>>] :
     ks \in {s \in UNION {[1..n -> HeaderNames] : n \in 1..MaxHeaders} :
               \A i, j \in 1..Len(s) : i # j => Lower(s[i]) # Lower(s[j])}}

HeaderInit ==
  /\ impl = "aws"
  /\ config = {}
  /\ sp_api = "client"
  /\ headers \in HeaderInputs
  /\ Constructed
  /\ OneCaller

\* sp_api_aws.py:127-129
Canonicalise ==
  /\ canonical_headers = <<>>
  /\ canonical_headers' = CanonicalHeaders(headers)
  /\ signed_headers' = SignedHeaders(headers)
  /\ UNCHANGED <<impl, config, sp_api, headers, sigv4, ui, writers, now, client, ctl, ghost>>

\* the names of the headers of lines 150-153: "Authorization",
\* "X-Amz-Security-Token" ("X-Amz-Date" is XAmzDateCap)
AuthorizationCap == <<65, 117, 116, 104, 111, 114, 105, 122, 97, 116, 105, 111, 110>>
XAmzSecurityTokenCap == <<88, 45, 65, 109, 122, 45, 83, 101, 99, 117, 114, 105, 116,
                          121, 45, 84, 111, 107, 101, 110>>

\* datetime.utcnow().strftime('%Y%m%dT%H%M%SZ') at two instants, one second
\* apart across midnight, character by character
Timestamps ==
  {<<"2", "0", "2", "6", "1", "1", "0", "4", "T", "2", "3", "5", "9", "5", "9", "Z">>,
   <<"2", "0", "2", "6", "1", "1", "0", "5", "T", "0", "0", "0", "0", "0", "0", "Z">>}

\* session['session_token']: the empty string or a token
SessionTokens == {<<>>, <<"S", "T">>}

\* timestamp[:8]
DateStamp(ts) == SubSeq(ts, 1, 8)

\* f"{date_stamp}/{self.region}/execute-api/aws4_request"
CredentialScope(ds) == <<ds, "us-east-1", "execute-api", "aws4_request">>

\* f"{algorithm}\n{timestamp}\n{credential_scope}\n{sha256(canonical_request)}"
StringToSign(ts, scope, ch, sh) == <<"AWS4-HMAC-SHA256", ts, scope, <<"sha256", ch, sh>>>>

\* hmac.new(get_signature_key(secret_key, date_stamp, region, 'execute-api'),
\*          string_to_sign)
Signature(ds, sts) == <<"hmac", <<"AWS4", ds, "us-east-1", "execute-api">>, sts>>

\* f"{algorithm} Credential={access_key}/{credential_scope},
\*    SignedHeaders={signed_headers}, Signature={signature}"
Authorization(scope, sh, sig) == <<"AWS4-HMAC-SHA256", <<"access_key", scope>>, sh, sig>>

\* headers[k] = v on a dict: the value of an existing key is replaced in place,
\* a new key goes last
DictHas(d, k) == \E i \in 1..Len(d) : d[i][1] = k
DictGet(d, k) == d[CHOOSE i \in 1..Len(d) : d[i][1] = k][2]
DictSet(d, k, v) ==
  IF DictHas(d, k)
  THEN [i \in 1..Len(d) |-> IF d[i][1] = k THEN <<k, v>> ELSE d[i]]
  ELSE Append(d, <<k, v>>)

\* sp_api_aws.py:152  if session['session_token']:
AddsSecurityToken(st) == st # <<>>

\* sp_api_aws.py:134-155: the string to sign, the Authorization value, and the
\* headers added to the dict that was passed in, which is what sign returns
AddAuthorization ==
  /\ canonical_headers # <<>>
  /\ sigv4 = NoSigV4
  /\ \E timestamp \in Timestamps, session_token \in SessionTokens :
       LET date_stamp == DateStamp(timestamp)
           credential_scope == CredentialScope(date_stamp)
           string_to_sign == StringToSign(timestamp, credential_scope,
                                          canonical_headers, signed_headers)
           signature == Signature(date_stamp, string_to_sign)
           authorization == Authorization(credential_scope, signed_headers, signature)
           dated == DictSet(DictSet(headers, AuthorizationCap, authorization),
                            XAmzDateCap, timestamp)
       IN /\ sigv4' = [input |-> headers, timestamp |-> timestamp,
                       date_stamp |-> date_stamp, string_to_sign |-> string_to_sign,
                       authorization |-> authorization,
                       session_token |-> session_token]
          /\ headers' = IF AddsSecurityToken(session_token)
                        THEN DictSet(dated, XAmzSecurityTokenCap, session_token)
                        ELSE dated
  /\ UNCHANGED <<impl, config, sp_api, canonical_headers, signed_headers, ui,
                 writers, now, client, ctl, ghost>>

HeaderNext == Canonicalise \/ AddAuthorization

\* create_aws_signature's header canonicalisation on every input
HeaderSpec == HeaderInit /\ [][HeaderNext]_vars

\* ------------------------------------------ get_dashboard_data (app.py)
\* a 200 body that decodes to a JSON list, not an object
ListBodies == {"[]"}

\* what get_orders_today, get_orders_week and get_inventory hand to the
\* dashboard: a decoded body, one of make_sp_api_call's error records, or an
\* exception
ClientOutcomes ==
  {PayloadV(b) : b \in Bodies \cup ListBodies}
  \cup {ErrAuth("aws"), ErrSign, ErrException("transport")}
  \cup {ErrHttp("aws", "500", b) : b \in Bodies}
  \cup {RaisedV("client")}

\* the value is a Python dict (it has .get)
IsDict(v) == v.tag = "error" \/ (v.tag = "payload" /\ v.val \notin ListBodies)

\* app.py:52  any('error' in data for data in [today_orders, week_orders, inventory])
AllError(ds) == \A d \in ds : HasError(d)
AnyError(ds) == \E d \in ds : HasError(d)

\* app.py:110 and app.py:175: the keys of the returned dict that name its origin
LiveData == [data_source |-> "sp_api", api_status |-> "connected"]
DemoData == [data_source |-> "demo", api_status |-> "demo"]

\* app.py:66-110: .get('payload', {}) on each result, then the live dict; a
\* result that is no dict raises AttributeError
ProcessSpApiData(t, w, i) ==
  IF IsDict(t) /\ IsDict(w) /\ IsDict(i) THEN LiveData
  ELSE RaisedV("AttributeError")

\* app.py:44  if self.sp_api:
GetDashboardDataBegin ==
  /\ dash.pc = "idle"
  /\ dash' = [NoDash EXCEPT !.pc = IF sp_api = "client" THEN "gdd_today" ELSE "gdd_demo"]
  /\ UNCHANGED <<impl, config, sp_api, signing, gate, writers, now, client, ctl, ghost>>

\* app.py:49-51: one call on the client; an exception leaves the try block for
\* the handler of line 60, which logs and falls through to line 64
GddCall(at, field, next) ==
  /\ dash.pc = at
  /\ \E o \in ClientOutcomes :
       dash' = IF o.tag = "raised"
               THEN [dash EXCEPT !.pc = "gdd_demo", !.raised = TRUE]
               ELSE [dash EXCEPT !.pc = next, ![field] = o]
  /\ UNCHANGED <<impl, config, sp_api, signing, gate, writers, now, client, ctl, ghost>>

GetDashboardDataToday == GddCall("gdd_today", "today", "gdd_week")
GetDashboardDataWeek == GddCall("gdd_week", "week", "gdd_inventory")
GetDashboardDataInventory == GddCall("gdd_inventory", "inventory", "gdd_decide")

\* app.py:52-58
GetDashboardDataDecide ==
  /\ dash.pc = "gdd_decide"
  /\ LET live == ProcessSpApiData(dash.today, dash.week, dash.inventory)
     IN dash' = IF AnyError({dash.today, dash.week, dash.inventory})
                THEN [dash EXCEPT !.pc = "gdd_demo"]
                ELSE IF live = RaisedV("AttributeError")
                THEN [dash EXCEPT !.pc = "gdd_demo", !.raised = TRUE]
                ELSE [dash EXCEPT !.pc = "done", !.out = live]
  /\ UNCHANGED <<impl, config, sp_api, signing, gate, writers, now, client, ctl, ghost>>

\* app.py:63-64  return self.get_enhanced_demo_data()
GetDashboardDataDemo ==
  /\ dash.pc = "gdd_demo"
  /\ dash' = [dash EXCEPT !.pc = "done", !.out = DemoData]
  /\ UNCHANGED <<impl, config, sp_api, signing, gate, writers, now, client, ctl, ghost>>

\* the route handler has its answer; the next request starts from line 44
GetDashboardDataDone ==
  /\ dash.pc = "done"
  /\ dash' = NoDash
  /\ UNCHANGED <<impl, config, sp_api, signing, gate, writers, now, client, ctl, ghost>>

\* the dashboard with its client, or without one (the import or the constructor
\* failed)
DashInit ==
  /\ impl = "aws"
  /\ config = {}
  /\ headers = <<>>
  /\ sp_api \in {"client", "none"}
  /\ Constructed
  /\ OneCaller

DashNext ==
  \/ GetDashboardDataBegin
  \/ GetDashboardDataToday
  \/ GetDashboardDataWeek
  \/ GetDashboardDataInventory
  \/ GetDashboardDataDecide
  \/ GetDashboardDataDemo
  \/ GetDashboardDataDone

DashSpec == DashInit /\ [][DashNext]_vars

\* ------------------------------------- password gate (streamlit_app.py)
\* st.secrets["app_password"] and what a visitor may type
AppPassword == "viktory"
Passwords == {AppPassword, "wrong", "guess", ""}

\* streamlit_app.py:33  st.session_state["password"] == st.secrets["app_password"]
PasswordMatchesNonEmpty(p) == p # ""
PasswordMatches(p) == p = AppPassword

\* the text the password box shows
BoxText == IF gate.password = Absent THEN "" ELSE gate.password

\* streamlit_app.py:31-38: the on_change callback of the password box. It runs
\* when the visitor commits a text other than the one in the box, with that
\* text in session_state["password"], and the script is rerun after it.
password_entered ==
  /\ gate.widget
  /\ Len(gate.submitted) < MaxSubmissions
  /\ \E p \in Passwords \ {BoxText} :
       gate' = [gate EXCEPT
                  !.password_correct = IF PasswordMatches(p) THEN "True" ELSE "False",
                  !.password = IF PasswordMatches(p) THEN Absent ELSE p,
                  !.widget = FALSE,
                  !.body = FALSE,
                  !.submitted = Append(@, p)]
  /\ UNCHANGED <<impl, config, sp_api, signing, dash, writers, now, client, ctl, ghost>>

\* streamlit_app.py:40-103: one run of the script. check_password draws the
\* password box and returns False (st.stop() follows), or returns True and the
\* rest of the script, the dashboard body, runs.
ScriptRun ==
  /\ gate' = IF gate.password_correct = Absent \/ gate.password_correct = "False"
             THEN [gate EXCEPT !.widget = TRUE, !.body = FALSE]
             ELSE [gate EXCEPT !.welcome_shown = TRUE, !.widget = FALSE, !.body = TRUE]
  /\ UNCHANGED <<impl, config, sp_api, signing, dash, writers, now, client, ctl, ghost>>

GateInit ==
  /\ impl = "aws"
  /\ config = {}
  /\ headers = <<>>
  /\ sp_api = "unbuilt"
  /\ Constructed
  /\ OneCaller

GateNext == password_entered \/ ScriptRun

\* one browser session of the Streamlit app
GateSpec == GateInit /\ [][GateNext]_vars

\* the client with every method of its interface
WrapperNext ==
  \/ Tick
  \/ \E t \in Threads :
        Start(t) \/ StartWrapper(t) \/ Run(t) \/ RunWrapper(t) \/ Finish(t)

WrapperSpec == Init /\ [][WrapperNext]_vars


\* ================================================================= claims
ApiCall(t) == op[t] = "make_sp_api_call"
GetTokenCall(t) == op[t] = "get_lwa_token"

\* the value a method has just returned, to its caller or out of the call
Returned(t) == IF pc[t] = "done" THEN result[t] ELSE ret[t]

\* get_lwa_token has just returned (to make_sp_api_call, or to the caller)
JustReturnedToken(t) ==
  \/ pc[t] \in {"msc_after_token", "tc_after_token"}
  \/ pc[t] = "done" /\ GetTokenCall(t)

\* the cache as the validity check of this get_lwa_token call read it
EntryTokenValid(t) == entryT[t].val # None /\ entryT[t].at < entryT[t].exp
EntryTokenExpired(t) == entryT[t].val # None /\ entryT[t].at >= entryT[t].exp

\* every GET of the running call was answered 429 (the GETs of the earlier
\* frames were: only a 429 makes the call recurse)
AllThrottled(t) == Count(log[t], GetCalls) = Count(log[t], Throttled)

\* C1: in one invocation of the API call against an endpoint that answers 429
\* to every GET, at most two GETs are issued (the original and one retry) and
\* the call then returns an error record; there is never a third GET.
C1_RetryBound ==
  \A t \in Threads :
    (ApiCall(t) /\ AllThrottled(t)) =>
       /\ tries[t] <= 2
       /\ (pc[t] = "done" /\ tries[t] >= 1) => result[t].tag = "error"

\* C2: every invocation of the API call eventually returns a payload or an
\* error record, whatever the endpoints answer, 429 forever included.
C2_CallReturns ==
  \A t \in Threads :
    ApiCall(t) ~> (pc[t] = "done" /\ result[t].tag \in {"payload", "error"})

\* a call that was answered 429 at every frame down to the interpreter's limit
\* has returned
C2_Witness ==
  \E t \in Threads :
    /\ ApiCall(t) /\ pc[t] = "done"
    /\ tries[t] = RecursionLimit /\ AllThrottled(t)
    /\ result[t].tag = "error"

\* C3: of two consecutive get_token calls, the first of which exchanged and
\* the second of which is made while the cached token is valid, exactly one
\* performs a network exchange, and the second returns the first one's token.
C3_TokenReuse ==
  \A t \in Threads :
    (pc[t] = "done" /\ GetTokenCall(t) /\ prev.exch >= 1 /\ EntryTokenValid(t)) =>
       /\ prev.exch + Count(log[t], LwaCalls) = 1
       /\ result[t] = TokenV(prev.tok)

C3_Witness ==
  \E t \in Threads :
    /\ pc[t] = "done" /\ GetTokenCall(t) /\ prev.exch >= 1 /\ EntryTokenValid(t)
    /\ now > 0

\* C4 as written: a get_token call made after the cached token expired, whose
\* exchange succeeds with any expires_in, performs one exchange and stores an
\* expires_at strictly greater than the one stored before the call.
C4_RefreshAnyLifetime ==
  \A t \in Threads :
    (JustReturnedToken(t) /\ Truthy(Returned(t)) /\ EntryTokenExpired(t)) =>
       /\ Count(log[t], LwaCalls) = 1
       /\ lwa_token_expires_at > entryT[t].exp

\* C4 amended: the same, for an exchange whose expires_in exceeds the 60 s
\* margin (an absent expires_in counts as 3600).
C4_Refresh ==
  \A t \in Threads :
    (/\ JustReturnedToken(t) /\ Truthy(Returned(t)) /\ EntryTokenExpired(t)
     /\ ExpiresIn(resp[t]) > Margin) =>
       /\ Count(log[t], LwaCalls) = 1
       /\ lwa_token_expires_at > entryT[t].exp

C4_Witness ==
  \E t \in Threads :
    /\ JustReturnedToken(t) /\ Truthy(Returned(t)) /\ EntryTokenExpired(t)
    /\ ExpiresIn(resp[t]) > Margin
    /\ entryT[t].exp > 0

\* C5: when get_token returns a failure, both cached fields have the values
\* they had before the call.
C5_FailedExchangeKeepsCache ==
  \A t \in Threads :
    (JustReturnedToken(t) /\ frame[t].tokFailed) =>
       /\ lwa_access_token = entryT[t].val
       /\ lwa_token_expires_at = entryT[t].exp


\* assume_role has just returned (to create_aws_signature, or to the caller)
JustReturnedRole(t) ==
  \/ pc[t] \in {"sig_after_assume", "tc_after_role"}
  \/ pc[t] = "done" /\ op[t] = "assume_role"

\* the cache as the validity check of this assume_role call read it
EntrySessionValid(t) == entryS[t].val # None /\ entryS[t].at < entryS[t].exp

\* create_aws_signature has just returned (to make_sp_api_call, or to the caller)
JustSigned(t) ==
  \/ pc[t] = "msc_after_sign"
  \/ pc[t] = "done" /\ op[t] = "create_aws_signature"

\* C6: when assume_role returns a failure, the cached credential and its
\* expiry have the values they had before the call.
C6_FailedAssumeKeepsCache ==
  \A t \in Threads :
    (JustReturnedRole(t) /\ frame[t].arFailed) =>
       /\ aws_session = entryS[t].val
       /\ aws_session_expires_at = entryS[t].exp

\* C7: while a credential is cached and now < its stored expiry, assume_role
\* returns the cached credential without an exchange; an exchange is made
\* only when nothing is cached or the stored expiry has been reached.
C7_SessionReuse ==
  \A t \in Threads :
    /\ (JustReturnedRole(t) /\ EntrySessionValid(t)) =>
          /\ Returned(t) = SessionV(entryS[t].val)
          /\ Count(log[t], StsCalls) = 0
    /\ pc[t] \in {"ar_call", "ar_store_session", "ar_store_exp", "ar_return"} =>
          ~EntrySessionValid(t)

C7_Witness ==
  \E t \in Threads :
    /\ JustReturnedRole(t) /\ EntrySessionValid(t)
    /\ Returned(t) = SessionV(entryS[t].val)

\* C8 as written: every signature is computed with a credential whose stored
\* expiry is later than the clock reading at signing.
C8_SignUsesValidCredential ==
  \A t \in Threads :
    (JustSigned(t) /\ Returned(t).tag = "signed") =>
       /\ Returned(t).val = aws_session
       /\ Returned(t).at < aws_session_expires_at

\* C8 amended: every signature is computed with the cached credential, and
\* either its stored expiry is later than the clock reading at signing or the
\* credential was obtained by a role assumption inside this very sign call.
C8_SignNeverUsesStaleCache ==
  \A t \in Threads :
    (JustSigned(t) /\ Returned(t).tag = "signed") =>
       /\ Returned(t).val = aws_session
       /\ \/ Returned(t).at < aws_session_expires_at
          \/ Count(log[t], StsCalls) = 1

\* a signature made with a credential that an earlier call cached, after a
\* clock advance
C8_Witness ==
  \E t \in Threads :
    /\ JustSigned(t) /\ Returned(t).tag = "signed"
    /\ Count(log[t], StsCalls) = 0
    /\ now > 0

\* C9: when role assumption fails, sign returns null, and the API call that
\* asked for the signature returns the signing-failed record without a GET.
C9_RoleFailurePropagates ==
  \A t \in Threads :
    frame[t].arFailed =>
       /\ (JustSigned(t) => Returned(t) = NoneV)
       /\ (ApiCall(t) /\ pc[t] \notin {"sig_after_assume", "msc_after_sign"}) =>
             /\ pc[t] = "done"
             /\ result[t] = ErrSign
             /\ Count(log[t], GetCalls) = 0
             /\ api_calls = frame[t].calls

C9_Witness ==
  \E t \in Threads :
    /\ frame[t].arFailed /\ ApiCall(t) /\ pc[t] = "done"
    /\ tries[t] = 1

\* C10: when the bearer token cannot be obtained, the API call returns the
\* auth-failed record, makes no role assumption and no GET, and leaves
\* api_calls as it was.
C10_AuthShortCircuit ==
  \A t \in Threads :
    (ApiCall(t) /\ frame[t].tokFailed /\ pc[t] # "msc_after_token") =>
       /\ pc[t] = "done"
       /\ result[t] = ErrAuth(impl)
       /\ Count(log[t], StsCalls) = 0
       /\ Count(log[t], GetCalls) = 0
       /\ api_calls = frame[t].calls

C10_Witness ==
  \E t \in Threads :
    /\ ApiCall(t) /\ frame[t].tokFailed /\ pc[t] = "done"
    /\ lwa_access_token # None

\* C11: an API call that has returned gave its caller the decoded payload or
\* an error record with an 'error' message, whatever the token exchange, the
\* role assumption and the GET did; no exception leaves the call.
C11_NoExceptionEscapes ==
  \A t \in Threads :
    (ApiCall(t) /\ pc[t] = "done") =>
       /\ result[t].tag # "raised"
       /\ \/ result[t].tag = "payload"
          \/ result[t].tag = "error" /\ result[t].val # ""

\* a call whose GET raised (a timeout, a refused connection) has returned
C11_Witness ==
  \E t \in Threads :
    /\ ApiCall(t) /\ pc[t] = "done"
    /\ gets[t] = <<"exc">>
    /\ result[t] = ErrException("transport")

OrdersTodayCall(t) == op[t] = "get_orders_today"
TestCall(t) == op[t] = "test_connection"

\* no exchange of the running call failed and every GET was answered 200
AllSucceeded(t) ==
  /\ ~frame[t].tokFailed /\ ~frame[t].arFailed
  /\ \A i \in 1..Len(gets[t]) : gets[t][i] = "200"

\* C13: get_orders_today on the signing client, started with both caches
\* empty, with the token exchange (expires_in 3600), the role assumption and
\* the orders GET all succeeding, returns the orders response's decoded body
\* unmodified after exactly three network calls: token exchange, role
\* assumption, orders GET, in that order.
C13_ColdStart ==
  \A t \in Threads :
    (/\ impl = "aws" /\ OrdersTodayCall(t) /\ pc[t] = "done"
     /\ frame[t].cold /\ AllSucceeded(t)
     /\ lwa_token_expires_at = LwaExpiresAt(now, DefaultExpiresIn)) =>
       /\ log[t] = <<"lwa", "sts", "get200">>
       /\ resp[t].status = "200"
       /\ result[t] = PayloadV(resp[t].body)

C13_Witness ==
  \E t \in Threads :
    /\ impl = "aws" /\ OrdersTodayCall(t) /\ pc[t] = "done"
    /\ frame[t].cold /\ AllSucceeded(t)
    /\ lwa_token_expires_at = LwaExpiresAt(now, DefaultExpiresIn)
    /\ result[t] = PayloadV("B1")

\* C14: a test_connection run that returns FAILED names the stage that
\* failed: LWA_TOKEN only if the token exchange failed, AWS_ROLE only if the
\* role assumption failed, SP_API_CALL only if token and credential were
\* obtained and the GET itself failed (never for a token or role failure).
C14_StepNamesFailedStage ==
  \A t \in Threads :
    (TestCall(t) /\ pc[t] = "done" /\ result[t].status = "FAILED") =>
       /\ result[t].step = "LWA_TOKEN" => frame[t].tokFailed
       /\ result[t].step = "AWS_ROLE" => frame[t].arFailed
       /\ result[t].step = "SP_API_CALL" =>
             /\ ~frame[t].tokFailed /\ ~frame[t].arFailed
             /\ gets[t] # <<>> /\ gets[t][Len(gets[t])] # "200"

NetworkCalls == LwaCalls \cup StsCalls \cup GetCalls

\* C15: when a required setting is missing, construction fails, and no
\* client lacking a required setting gets as far as a token exchange, a role
\* assumption or an API call.
C15_ConfigFailFast ==
  config # {} =>
     /\ sp_api # "client"
     /\ \A t \in Threads :
          /\ pc[t] \in {"idle", "off"}
          /\ Count(log[t], NetworkCalls) = 0

\* the thread is in get_lwa_token past the validity check, or has returned
PastTokenCheck(t) ==
  /\ GetTokenCall(t)
  /\ pc[t] \in {"lwa_post", "lwa_store_token", "lwa_store_exp", "lwa_return", "done"}

\* C16: two threads of one client that both called get_token while the same
\* cached token (stored whole by one refresh) was expired perform at most one
\* exchange between them.
C16_SingleRefresh ==
  \A t, u \in Threads :
    (/\ t # u /\ PastTokenCheck(t) /\ PastTokenCheck(u)
     /\ EntryTokenExpired(t) /\ EntryTokenExpired(u)
     /\ entryT[t].vby = entryT[t].eby /\ entryT[u].vby = entryT[u].eby
     /\ entryT[t].val = entryT[u].val /\ entryT[t].exp = entryT[u].exp) =>
       Count(log[t], LwaCalls) + Count(log[u], LwaCalls) <= 1

\* C17: the token and the expiry a thread reads in the validity check of
\* get_token were written by the same refresh (or both by construction).
C17_NoTornRead ==
  \A t \in Threads : entryT[t].vby = entryT[t].eby

\* C18: for headers of any casing and insertion order, the lines of the
\* canonical header block and the names of signed_headers are in ascending
\* order of the lower-cased header name.
C18_CanonicalOrder ==
  canonical_headers # <<>> =>
     /\ \A i, j \in 1..Len(canonical_headers) :
          i < j => StrLess(canonical_headers[i][1], canonical_headers[j][1])
     /\ \A i, j \in 1..Len(signed_headers) :
          i < j => StrLess(signed_headers[i], signed_headers[j])

\* the status the last GET of the running call was answered with
LastStatus(t) == gets[t][Len(gets[t])]

\* C20: an API call whose GET was answered with a status other than 200 and
\* 429 returns an error record that carries the status code and the raw
\* response body.
C20_HttpErrorShape ==
  \A t \in Threads :
    (/\ ApiCall(t) /\ pc[t] = "done" /\ gets[t] # <<>>
     /\ LastStatus(t) \notin {"200", "429", "exc"}) =>
       /\ result[t].tag = "error"
       /\ result[t].val = "SP-API Error: " \o LastStatus(t)
       /\ result[t].details = resp[t].body

\* C21: a step in which the GET of an API call raises (a timeout, a refused
\* connection) ends the call with an error record whose message is the
\* exception's message; the GET is not repeated, and the token cache and the
\* session cache are what they were before the GET.
C21_TransportFailure ==
  [][\A t \in Threads :
       (/\ ApiCall(t) /\ pc[t] = "msc_get"
        /\ gets'[t] = Append(gets[t], "exc")) =>
          /\ pc'[t] = "done"
          /\ result'[t].tag = "error" /\ result'[t].val = "transport"
          /\ http_gets' = http_gets + 1
          /\ UNCHANGED <<lwa_access_token, lwa_token_expires_at,
                         aws_session, aws_session_expires_at>>]_vars

\* a call on a warm token cache has ended by its only GET raising
C21_Witness ==
  \E t \in Threads :
    /\ ApiCall(t) /\ pc[t] = "done"
    /\ gets[t] = <<"exc">> /\ tries[t] = 1
    /\ lwa_access_token # None
    /\ result[t].val = "transport"

C23_DemoFallback ==
  dash.pc = "done" =>
    LET results == {dash.today, dash.week, dash.inventory}
    IN /\ dash.out.data_source \in {"sp_api", "demo"}
       /\ dash.out.data_source = "sp_api" =>
             /\ sp_api = "client" /\ ~dash.raised
             /\ \A d \in results : d.tag = "payload"
       /\ (sp_api # "client" \/ dash.raised \/ \E d \in results : d.tag = "error") =>
             dash.out.data_source = "demo"

\* the third client call returned an error record after two good ones, and the
\* dashboard has answered
C23_Witness ==
  /\ dash.pc = "done"
  /\ dash.today.tag = "payload" /\ dash.week.tag = "payload"
  /\ dash.inventory.tag = "error"
  /\ dash.out.data_source = "demo"

\* a step in which thread t makes a network call of one of the given kinds
Exchanges(t, kinds) ==
  /\ Len(log'[t]) = Len(log[t]) + 1
  /\ log'[t][Len(log'[t])] \in kinds

\* C24: a token exchange is made only by a get_token call whose check, at the
\* present clock reading, found the token cache empty or expired, and a role
\* assumption only by an assume_role call whose check found the session cache
\* empty or expired; a step that only advances the clock makes no exchange.
C24_LazyRefresh ==
  [][\A t \in Threads :
       /\ Exchanges(t, LwaCalls) =>
             /\ pc[t] = "lwa_post"
             /\ entryT[t].at = now
             /\ ~EntryTokenValid(t)
       /\ Exchanges(t, StsCalls) =>
             /\ pc[t] = "ar_call"
             /\ entryS[t].at = now
             /\ ~EntrySessionValid(t)
       /\ (now' # now /\ pc' = pc) => ~Exchanges(t, LwaCalls \cup StsCalls)]_vars

\* a get_token call has made its one exchange after its check found the cached
\* token expired
C24_Witness ==
  \E t \in Threads :
    /\ pc[t] = "lwa_store_token"
    /\ EntryTokenExpired(t)
    /\ Count(log[t], LwaCalls) = 1

\* C25: a token that get_token hands out from the cache is handed out more than
\* 60 seconds before the end of the lifetime its exchange reported: the call's
\* time is earlier than t0 + expires_in - 60, t0 and expires_in being those of
\* the exchange that produced the token.
C25_SafetyMargin ==
  \A t \in Threads :
    (JustReturnedToken(t) /\ EntryTokenValid(t)) =>
       entryT[t].at < entryT[t].dies - Margin

\* the names (keys) of a header dict
Names(d) == {d[i][1] : i \in 1..Len(d)}
\* the headers create_aws_signature adds to its input
AddedNames(st) ==
  {AuthorizationCap, XAmzDateCap} \cup (IF st # <<>> THEN {XAmzSecurityTokenCap} ELSE {})
Signed == sigv4 # NoSigV4

\* C26: the headers create_aws_signature returns are the input headers with
\* their names and values unchanged, plus Authorization and X-Amz-Date, plus
\* X-Amz-Security-Token exactly when the session token is not empty; the value
\* of X-Amz-Date is the timestamp of the string to sign, and the date of the
\* credential scope is its first 8 characters.
C26_ReturnedHeaders ==
  Signed =>
    /\ \A i \in 1..Len(sigv4.input) :
          /\ DictHas(headers, sigv4.input[i][1])
          /\ DictGet(headers, sigv4.input[i][1]) = sigv4.input[i][2]
    /\ Names(headers) = Names(sigv4.input) \cup AddedNames(sigv4.session_token)
    /\ DictGet(headers, XAmzDateCap) = sigv4.string_to_sign[2]
    /\ sigv4.authorization[2][2][1] = SubSeq(sigv4.string_to_sign[2], 1, 8)

\* the signed set: the names listed after SignedHeaders= in the Authorization
\* header that was returned
SignedSet == {DictGet(headers, AuthorizationCap)[3][i] :
                i \in 1..Len(DictGet(headers, AuthorizationCap)[3])}

\* C29: the SignedHeaders list of the returned Authorization header names every
\* header that was passed in (lower-cased) and no other, and none of the
\* headers create_aws_signature adds itself (Authorization, X-Amz-Date,
\* X-Amz-Security-Token) is in the signed set.
C29_SignedSet ==
  Signed =>
    /\ SignedSet = {Lower(k) : k \in Names(sigv4.input)}
    /\ \A k \in AddedNames(sigv4.session_token) : Lower(k) \notin SignedSet

\* get_token / assume_role returned the failure value although the cache held
\* an expired value it could have returned
FailureNotStale(t) ==
  /\ (JustReturnedToken(t) /\ EntryTokenExpired(t) /\ frame[t].tokFailed) =>
        Returned(t) = NoneV
  /\ (JustReturnedRole(t) /\ entryS[t].val # None /\ ~EntrySessionValid(t)
      /\ frame[t].arFailed) =>
        Returned(t) = NoneV

\* C27 as written: a refresh of an expired cache that fails makes get_token /
\* assume_role return the failure, and every value they return otherwise has a
\* stored expiry later than the current time.
C27_ReturnsOnlyUnexpired ==
  \A t \in Threads :
    /\ FailureNotStale(t)
    /\ (JustReturnedToken(t) /\ Truthy(Returned(t))) =>
          /\ Returned(t).val = lwa_access_token
          /\ now < lwa_token_expires_at
    /\ (JustReturnedRole(t) /\ Truthy(Returned(t))) =>
          /\ Returned(t).val = aws_session
          /\ now < aws_session_expires_at

\* C27 amended: the failure is returned as above, and a value returned
\* otherwise is either the cached one, found with a stored expiry later than
\* the current time, or the one a successful exchange of this very call has
\* just stored, with the expiry the exchange gave it minus the margin.
C27_NeverStaleCache ==
  \A t \in Threads :
    /\ FailureNotStale(t)
    /\ (JustReturnedToken(t) /\ Truthy(Returned(t))) =>
          /\ Returned(t).val = lwa_access_token
          /\ \/ Count(log[t], LwaCalls) = 0 /\ EntryTokenValid(t)
             \/ /\ Count(log[t], LwaCalls) = 1 /\ ~EntryTokenValid(t)
                /\ lwa_access_token = resp[t].tok
                /\ lwa_token_expires_at = now + ExpiresIn(resp[t]) - Margin
    /\ (JustReturnedRole(t) /\ Truthy(Returned(t))) =>
          /\ Returned(t).val = aws_session
          /\ \/ Count(log[t], StsCalls) = 0 /\ EntrySessionValid(t)
             \/ /\ Count(log[t], StsCalls) = 1 /\ ~EntrySessionValid(t)
                /\ aws_session = resp[t].sess
                /\ aws_session_expires_at = resp[t].x - Margin

\* the refresh of an expired token failed and get_token returned the failure
C27_Witness ==
  \E t \in Threads :
    /\ JustReturnedToken(t) /\ EntryTokenExpired(t) /\ frame[t].tokFailed
    /\ Returned(t) = NoneV
    /\ lwa_access_token # None

\* C28: api_calls is the number of HTTP GETs attempted so far, a GET that is
\* about to be sent included: every 429 retry and every GET that raised is
\* counted once, test_connection reports that number, and a call that returned
\* for a missing token or a missing signature left the counter as it found it.
C28_CallCounter ==
  /\ api_calls = http_gets + Cardinality({t \in Threads : pc[t] = "msc_get"})
  /\ \A t \in Threads :
       /\ (pc[t] = "done" /\ result[t].tag = "test" /\ result[t].status = "SUCCESS") =>
             result[t].api_calls_made = http_gets
       /\ (pc[t] = "done" /\ result[t] \in {ErrAuth(impl), ErrSign}) =>
             /\ api_calls = frame[t].calls
             /\ Count(log[t], GetCalls) = 0

\* a call was answered 429 and its retry raised: two GETs, both counted
C28_Witness ==
  \E t \in Threads :
    /\ pc[t] = "done"
    /\ gets[t] = <<"429", "exc">>
    /\ api_calls = 2 /\ http_gets = 2

\* the last password submitted in the session
LastSubmitted == gate.submitted[Len(gate.submitted)]

\* C30: in one session, whatever passwords are submitted, the dashboard body
\* has run only in a script run that found password_correct True;
\* password_correct is True exactly when the last submission equals the
\* configured secret and False exactly when the last submission differs from
\* it, and once a correct password is submitted session_state holds no
\* password.
C30_PasswordGate ==
  /\ gate.body => gate.password_correct = "True"
  /\ gate.password_correct = "True" <=>
        (gate.submitted # <<>> /\ LastSubmitted = AppPassword)
  /\ gate.password_correct = "False" <=>
        (gate.submitted # <<>> /\ LastSubmitted # AppPassword)
  /\ gate.password_correct = "True" => gate.password = Absent

\* the body runs after two wrong passwords and then the right one
C30_Witness ==
  /\ gate.body
  /\ Len(gate.submitted) = 3
  /\ gate.submitted[1] # AppPassword /\ gate.submitted[2] # AppPassword
  /\ gate.password = Absent

====
